---------------------------- MODULE Spec2Model ----------------------------
(***************************************************************************)
(* Combat resolution engine of the StoryTeller plugin: the dice engine     *)
(* (dice.py), the damage calculator and the turn state machine (Fight.py), *)
(* the equipment bookkeeping they call (Investigator.py, GlobalData.py)    *)
(* and the command front end (start.py, __init__.py).                      *)
(*                                                                         *)
(* Python strings are modelled as sequences of one-character strings, so   *)
(* that parsing and concatenation of dice expressions are computed the way *)
(* the code computes them.                                                 *)
(***************************************************************************)
EXTENDS Integers, Sequences, FiniteSets, TLC

VARIABLES
    call,               \* the last call of a pure function: its inputs and its result
    in_fight,           \* user_states[qq]["in_fight"]
    current_turn,       \* CombatSystem.current_turn: "inv" or "mon"
    current_action,     \* CombatSystem.current_action
    hp_record,          \* CombatSystem.hp_record[player_id]: [inv, mon]
    gun,                \* CombatSystem.gun: equipped ranged item id, "" when none or broken
    bullet,             \* CombatSystem.bullet (Unset when the attribute was never assigned)
    max_bullet,         \* CombatSystem.max_bullet (Unset likewise)
    available_actions,  \* CombatSystem.available_actions: [inv, mon] -> sequence of action names
    player_info,        \* CombatSystem.player_info: the character record read at start_combat
    monster,            \* CombatSystem.monster: the monster catalog id
    equipped_items,     \* Investigator.equipped_items: part -> item id ("" when empty)
    inventory,          \* InventoryItem rows: item id -> quantity
    issurvive,          \* Investigator.issurvive
    day,                \* Investigator.day
    gold,               \* User.gold: the currency of the player
    user_states,        \* user_states of __init__.py with the rows of its users: qq -> session
    ret,                \* what the last execute_action call returned
    trace               \* the checks rolled and the damage computed by the last call

vars == <<call, in_fight, current_turn, current_action, hp_record, gun, bullet,
          max_bullet, available_actions, player_info, monster, equipped_items,
          inventory, issurvive, day, gold, user_states, ret, trace>>

combatVars == <<in_fight, current_turn, current_action, hp_record, gun, bullet,
                max_bullet, available_actions, player_info, monster,
                equipped_items, inventory, issurvive, day, gold, ret, trace>>

sessionVars == <<combatVars, user_states>>

-----------------------------------------------------------------------------
(* Small helpers *)

Range(s) == {s[i] : i \in 1..Len(s)}

Max2(a, b) == IF a >= b THEN a ELSE b

\* the element of a one-element set; a value computed once is bound by
\* x \in {value} and the result taken out of the set again
The(S) == CHOOSE x \in S : TRUE

-----------------------------------------------------------------------------
(* Names.  The program's Chinese string constants are written in ASCII:     *)
(*   actions  "melee" 格斗, "shot" 射击, "shot2" 二连射, "shot3" 三连射,    *)
(*            "reload" 换弹, "counter" 反击, "dodge" 闪避, "first" 先攻     *)
(*   parts    "near" 近战, "far" 远程, "armor" 防具                          *)
(*   skills   "melee" 格斗, "dodge" 闪避, "pistol" 手枪, "spot" 侦查          *)
(*   items    "pocket_knife" 弹簧折刀                                        *)

-----------------------------------------------------------------------------
(* dice.py: success levels and checks *)

CRITICAL_FAILURE == -1
FAILURE == 0
SUCCESS == 1
HARD_SUCCESS == 2
EXTREME_SUCCESS == 3
CRITICAL_SUCCESS == 4

Levels == CRITICAL_FAILURE..CRITICAL_SUCCESS

\* the result of an evaluation that raised ZeroDivisionError (roll / 0)
ZeroDivision == -99

D100 == 1..100

\* _calculate_success_level with the ExtremeSuccess bound taken strictly
CalculateSuccessLevelStrict(skill, roll) ==
    IF roll > 95 THEN CRITICAL_FAILURE
    ELSE IF roll < 6 THEN CRITICAL_SUCCESS
    ELSE IF skill = 0 THEN ZeroDivision
    ELSE IF roll > skill THEN FAILURE
    ELSE IF 2 * roll > skill THEN SUCCESS
    ELSE IF 5 * roll >= skill THEN HARD_SUCCESS
    ELSE EXTREME_SUCCESS

\* DiceRoll._calculate_success_level; roll / skill > q is compared exactly
\* (for a positive skill, roll/skill > 1/2 iff 2*roll > skill, > 1/5 iff 5*roll > skill)
CalculateSuccessLevel(skill, roll) ==
    IF roll > 95 THEN CRITICAL_FAILURE
    ELSE IF roll < 6 THEN CRITICAL_SUCCESS
    ELSE IF skill = 0 THEN ZeroDivision
    ELSE IF roll > skill THEN FAILURE
    ELSE IF 2 * roll > skill THEN SUCCESS
    ELSE IF 5 * roll > skill THEN HARD_SUCCESS
    ELSE EXTREME_SUCCESS

\* _check_confrontation without the counter mode's test for a failed actor
CheckConfrontationNoGuard(level1, level2, action_type, skill1, skill2) ==
    IF action_type = "dodge" THEN level1 > level2
    ELSE IF action_type = "counter" THEN level1 >= level2
    ELSE IF level1 # level2 THEN level1 > level2
    ELSE skill1 >= skill2

\* _check_confrontation with the dodge mode won by the actor on equal levels
CheckConfrontationDodgeTie(level1, level2, action_type, skill1, skill2) ==
    IF action_type = "dodge" THEN level1 >= level2
    ELSE IF action_type = "counter" THEN
        IF level1 <= FAILURE THEN FALSE ELSE level1 >= level2
    ELSE IF level1 # level2 THEN level1 > level2
    ELSE skill1 >= skill2

\* ConfrontationRoll._check_confrontation
CheckConfrontation(level1, level2, action_type, skill1, skill2) ==
    IF action_type = "dodge" THEN level1 > level2
    ELSE IF action_type = "counter" THEN
        IF level1 <= FAILURE THEN FALSE ELSE level1 >= level2
    ELSE IF level1 # level2 THEN level1 > level2
    ELSE skill1 >= skill2

\* PenaltyDiceRoll._roll_penalty_dice: the composed roll for one penalty digit
RollPenaltyDice(dice, penalty_value) ==
    IF dice \div 10 < penalty_value
    THEN (dice % 10) + penalty_value * 10
    ELSE dice

RECURSIVE ApplyPenaltyDiceMin(_, _, _)
\* the bonus-dice accumulation (min) applied to the penalty rolls
ApplyPenaltyDiceMin(dice, penalty_rolls, final_result) ==
    IF penalty_rolls = << >> THEN final_result
    ELSE LET penalty_roll == RollPenaltyDice(dice, Head(penalty_rolls))
         IN ApplyPenaltyDiceMin(dice, Tail(penalty_rolls),
                                IF penalty_roll < final_result THEN penalty_roll
                                ELSE final_result)

RECURSIVE ApplyPenaltyDice(_, _, _)
\* PenaltyDiceRoll._apply_penalty_dice: final_result after the digits in penalty_rolls
ApplyPenaltyDice(dice, penalty_rolls, final_result) ==
    IF penalty_rolls = << >> THEN final_result
    ELSE ApplyPenaltyDice(dice, Tail(penalty_rolls),
                          Max2(RollPenaltyDice(dice, Head(penalty_rolls)), final_result))

-----------------------------------------------------------------------------
(* dice.py: roll_dice over strings *)

Digits == {"0", "1", "2", "3", "4", "5", "6", "7", "8", "9"}

DigitVal(c) ==
    CASE c = "0" -> 0 [] c = "1" -> 1 [] c = "2" -> 2 [] c = "3" -> 3
      [] c = "4" -> 4 [] c = "5" -> 5 [] c = "6" -> 6 [] c = "7" -> 7
      [] c = "8" -> 8 [] c = "9" -> 9

DigitChar(n) == CHOOSE c \in Digits : DigitVal(c) = n

RECURSIVE NatToStr(_)
\* str(n) for n >= 0
NatToStr(n) ==
    IF n < 10 THEN <<DigitChar(n)>>
    ELSE Append(NatToStr(n \div 10), DigitChar(n % 10))

\* str(n)
IntToStr(n) == IF n < 0 THEN <<"-">> \o NatToStr(0 - n) ELSE NatToStr(n)

\* str.replace(c, "") for every c in cs
Strip(s, cs) == SelectSeq(s, LAMBDA c : c \notin cs)

\* str.isdigit
IsDigit(s) == Len(s) > 0 /\ \A i \in 1..Len(s) : s[i] \in Digits

RECURSIVE DigitsToNat(_, _)
DigitsToNat(s, acc) ==
    IF s = << >> THEN acc ELSE DigitsToNat(Tail(s), 10 * acc + DigitVal(Head(s)))

\* int(s) of a string without blanks: an optional sign and at least one digit,
\* anything else raises ValueError (ok = FALSE)
PyInt(s) ==
    IF IsDigit(s) THEN [ok |-> TRUE, val |-> DigitsToNat(s, 0)]
    ELSE IF Len(s) > 1 /\ Head(s) = "+" /\ IsDigit(Tail(s))
        THEN [ok |-> TRUE, val |-> DigitsToNat(Tail(s), 0)]
    ELSE IF Len(s) > 1 /\ Head(s) = "-" /\ IsDigit(Tail(s))
        THEN [ok |-> TRUE, val |-> 0 - DigitsToNat(Tail(s), 0)]
    ELSE [ok |-> FALSE, val |-> 0]

RECURSIVE SplitD(_, _, _)
\* part.split("d")
SplitD(s, cur, acc) ==
    IF s = << >> THEN Append(acc, cur)
    ELSE IF Head(s) = "d" THEN SplitD(Tail(s), << >>, Append(acc, cur))
    ELSE SplitD(Tail(s), Append(cur, Head(s)), acc)

RECURSIVE ParseParts(_, _, _)
\* roll_dice, the loop that cuts the expression at + and -: a sign that follows
\* a non-empty part closes the part, a sign at the start of a part belongs to it
ParseParts(expression, current_part, parts) ==
    IF expression = << >>
    THEN IF current_part # << >> THEN Append(parts, current_part) ELSE parts
    ELSE LET char == Head(expression) IN
         IF char \in {"+", "-"} /\ current_part # << >>
         THEN ParseParts(Tail(expression), << >>,
                         Append(Append(parts, current_part), <<char>>))
         ELSE ParseParts(Tail(expression), Append(current_part, char), parts)

RECURSIVE RollsSum(_, _)
\* sum(random.randint(1, sides) for _ in range(count)): every total it can take
RollsSum(count, sides) ==
    IF count <= 0 THEN {0}
    ELSE {t + r : t \in RollsSum(count - 1, sides), r \in 1..sides}

RollError == [ok |-> FALSE, vals |-> {}]

\* roll_dice.roll_single_dice: count and sides of a part that contains "d"
DiceArgs(part) ==
    IF Head(part) = "d"
    THEN The({[ok |-> s.ok, count |-> 1, sides |-> s.val] : s \in {PyInt(Tail(part))}})
    ELSE The({IF Len(ps) # 2 THEN [ok |-> FALSE, count |-> 0, sides |-> 0]
              ELSE The({[ok |-> c.ok /\ s.ok, count |-> c.val, sides |-> s.val] :
                           c \in {PyInt(ps[1])}, s \in {PyInt(ps[2])}})
              : ps \in {SplitD(part, << >>, << >>)}})

\* roll_dice.roll_single_dice: the totals the part can yield, ok = FALSE when it raises
RollSingleDice(part, use_max) ==
    IF "d" \in Range(part)
    THEN The({IF ~a.ok THEN RollError
              ELSE IF use_max THEN [ok |-> TRUE, vals |-> {a.count * a.sides}]
              ELSE IF a.count >= 1 /\ a.sides < 1 THEN RollError
              ELSE [ok |-> TRUE, vals |-> RollsSum(a.count, a.sides)]
              : a \in {DiceArgs(part)}})
    ELSE The({IF n.ok THEN [ok |-> TRUE, vals |-> {n.val}] ELSE RollError
              : n \in {PyInt(part)}})

RECURSIVE SumParts(_, _, _, _)
\* roll_dice, the loop that adds and subtracts the parts
SumParts(parts, current_operator, totals, use_max) ==
    IF parts = << >> THEN [ok |-> TRUE, vals |-> totals]
    ELSE LET part == Head(parts) IN
         IF part \in {<< >>, <<"+">>, <<"-">>, <<"+", "-">>}
         THEN SumParts(Tail(parts), part, totals, use_max)
         ELSE The({IF ~r.ok THEN RollError
                   ELSE SumParts(Tail(parts), current_operator,
                                 {IF current_operator = <<"+">> THEN t + v ELSE t - v :
                                     t \in totals, v \in r.vals}, use_max)
                   : r \in {RollSingleDice(part, use_max)}})

\* roll_dice: the totals the call can return, ok = FALSE when it raises ValueError
RollDice(dice_expression, use_max) ==
    IF IsDigit(Strip(dice_expression, {"+", "-", " "}))
    THEN The({IF n.ok THEN [ok |-> TRUE, vals |-> {n.val}] ELSE RollError
              : n \in {PyInt(dice_expression)}})
    ELSE The({IF Len(parts) = 1 THEN RollSingleDice(parts[1], use_max)
              ELSE SumParts(parts, <<"+">>, {0}, use_max)
              : parts \in {ParseParts(Strip(dice_expression, {" "}), << >>, << >>)}})

\* calculate_damage_bonus: the bonus string for size + strength
CalculateDamageBonus(size, strength) ==
    LET total == size + strength IN
    IF total < 65 THEN <<"-", "2">>
    ELSE IF total < 85 THEN <<"-", "1">>
    ELSE IF total < 125 THEN <<"0">>
    ELSE IF total < 165 THEN <<"1", "d", "4">>
    ELSE IF total < 205 THEN <<"1", "d", "6">>
    ELSE IntToStr((total - 205) \div 80 + 2) \o <<"d", "6">>

-----------------------------------------------------------------------------
(* Fight.py: the damage calculator *)

\* CombatSystem._double_damage: maximum roll plus one normal roll
DoubleDamage(damage) ==
    The({[ok |-> max_damage.ok /\ random_damage.ok,
          vals |-> {a + b : a \in max_damage.vals, b \in random_damage.vals}]
         : max_damage \in {RollDice(damage, TRUE)},
           random_damage \in {RollDice(damage, FALSE)}})

\* the pre-armor total with the maximum and the doubling already granted at HardSuccess
BaseDamageFromHard(damage, success_level, extra_damage) ==
    IF success_level >= HARD_SUCCESS /\ extra_damage THEN DoubleDamage(damage)
    ELSE RollDice(damage, success_level >= HARD_SUCCESS)

\* CombatSystem._calculate_damage_expression, lines 502-507: the pre-armor total
BaseDamage(damage, success_level, extra_damage) ==
    IF success_level > HARD_SUCCESS /\ extra_damage THEN DoubleDamage(damage)
    ELSE RollDice(damage, success_level > HARD_SUCCESS)

\* CombatSystem._calculate_damage_expression, lines 512-514: "if armor:"
ApplyArmor(total_damage, armor) ==
    IF armor # 0 THEN Max2(0, total_damage - armor) ELSE total_damage

\* CombatSystem._calculate_damage_expression: the (pre-armor, final) amounts it can return
CalculateDamageExpression(damage, success_level, extra_damage, armor) ==
    The({[ok |-> b.ok,
          vals |-> {[raw |-> t, total |-> ApplyArmor(t, armor)] : t \in b.vals}]
         : b \in {BaseDamage(damage, success_level, extra_damage)}})

-----------------------------------------------------------------------------
(* Dice expressions as the grammar writes them: a sum of signed terms, each *)
(* a literal or NdM (N may be omitted when it is 1), the first term without *)
(* a sign.  FormatExpr writes the string the program is given.              *)

MaxTerms == 2
MaxCount == 2
MaxSides == 3
MaxLit == 2

\* parts that are neither an integer nor count "d" sides
BadParts == <<<<"x">>, <<"1", "d">>, <<"1", "d", "2", "d", "3">>>>

Terms ==
    [kind : {"dice"}, sign : {"+", "-"}, n : 0..MaxCount, m : 0..MaxSides, omit : {FALSE}]
    \cup [kind : {"dice"}, sign : {"+", "-"}, n : {1}, m : 0..MaxSides, omit : {TRUE}]
    \cup [kind : {"lit"}, sign : {"+", "-"}, n : 0..MaxLit, m : {0}, omit : {FALSE}]
    \cup [kind : {"bad"}, sign : {"+", "-"}, n : 1..Len(BadParts), m : {0}, omit : {FALSE}]

TermSeqs ==
    UNION {{ts \in [1..k -> Terms] : ts[1].sign = "+"} : k \in 1..MaxTerms}

FormatTerm(t) ==
    IF t.kind = "dice"
    THEN (IF t.omit THEN << >> ELSE NatToStr(t.n)) \o <<"d">> \o NatToStr(t.m)
    ELSE IF t.kind = "bad" THEN BadParts[t.n]
    ELSE NatToStr(t.n)

\* an expression of integers and of dice terms with count >= 1 and sides >= 1
ValidTerms(ts) ==
    \A i \in 1..Len(ts) :
        \/ ts[i].kind = "lit"
        \/ ts[i].kind = "dice" /\ ts[i].n >= 1 /\ ts[i].m >= 1

RECURSIVE FormatExpr(_)
FormatExpr(ts) ==
    IF Len(ts) = 1 THEN FormatTerm(ts[1])
    ELSE LET k == Len(ts) IN
         FormatExpr(SubSeq(ts, 1, k - 1)) \o <<ts[k].sign>> \o FormatTerm(ts[k])

\* the largest value a term can contribute to the total
TermMax(t) ==
    IF t.kind = "dice"
    THEN (IF t.sign = "+" THEN t.n * t.m ELSE 0 - t.n)
    ELSE (IF t.sign = "+" THEN t.n ELSE 0 - t.n)

RECURSIVE TheoreticalMax(_)
TheoreticalMax(ts) ==
    IF ts = << >> THEN 0 ELSE TermMax(Head(ts)) + TheoreticalMax(Tail(ts))

-----------------------------------------------------------------------------
(* The pure functions, applied to inputs drawn from bounded sets *)

MaxSkill == 100
MaxConfSkill == 3
MaxPenaltyDice == 2
\* the skills the penalty check is constructed with
PenaltySkills == {1, 50, MaxSkill}
MaxArmor == 3

\* weapon damage expressions of the equipment catalog (goods_data "damage")
WeaponDamages == {<<"1", "d", "4">>, <<"1", "d", "3">>, <<"2">>}

\* Investigator attributes as InvestigatorGenerator rolls them: (2d6+6)*5 and 3d6*5
Sizes == {5 * k : k \in 8..18}
Strengths == {5 * k : k \in 3..18}

DamageBonuses == {CalculateDamageBonus(sz, st) : sz \in Sizes, st \in Strengths}

\* CombatSystem._handle_successful_attack, lines 172-177: damage with the bonus appended
WithBonus(damage, db) ==
    IF db # <<"0">>
    THEN (IF Head(db) = "-" THEN damage \o db ELSE damage \o <<"+">> \o db)
    ELSE damage

DamageExprs == {WithBonus(w, db) : w \in WeaponDamages, db \in DamageBonuses \cup {<<"0">>}}

IdleSession ==
    /\ in_fight = FALSE
    /\ current_turn = "inv"
    /\ current_action = ""
    /\ hp_record = [inv |-> 0, mon |-> 0]
    /\ gun = ""
    /\ bullet = 0
    /\ max_bullet = 0
    /\ available_actions = [inv |-> << >>, mon |-> << >>]
    /\ player_info = << >>
    /\ monster = ""
    /\ equipped_items = << >>
    /\ inventory = << >>
    /\ issurvive = TRUE
    /\ day = 1
    /\ gold = 0
    /\ ret = ""
    /\ trace = << >>

-----------------------------------------------------------------------------
(* Investigator.py: CreateInvestigator.set_skill over strings.  Keys are     *)
(* written in ASCII: "sq" 手枪, "bq" 步枪, "jy" 教育, "zl" 智力, "db" db, and    *)
(* "xx" for a name the generated investigator does not have.                 *)

SkillCap == 75

Blanks == {" "}

RECURSIVE FindAll(_, _, _)
\* re.compile(r"[^\d\s]+|\d+").findall(skills): the maximal runs of digits and
\* of characters that are neither digits nor blanks
FindAll(skills, current, match) ==
    IF skills = << >>
    THEN IF current # << >> THEN Append(match, current) ELSE match
    ELSE LET char == Head(skills) IN
         IF char \in Blanks
         THEN FindAll(Tail(skills), << >>,
                      IF current # << >> THEN Append(match, current) ELSE match)
         ELSE IF current = << >> \/ (char \in Digits) = (Head(current) \in Digits)
         THEN FindAll(Tail(skills), Append(current, char), match)
         ELSE FindAll(Tail(skills), <<char>>, Append(match, current))

\* zip(a, a) for a = iter(match): the consecutive pairs, an odd last token dropped
ZipPairs(match) == [i \in 1..(Len(match) \div 2) |-> <<match[2 * i - 1], match[2 * i]>>]

RECURSIVE DictKeys(_, _)
\* the keys of dict(pairs) in insertion order
DictKeys(pairs, keys) ==
    IF pairs = << >> THEN keys
    ELSE DictKeys(Tail(pairs),
                  IF \E i \in 1..Len(keys) : keys[i] = Head(pairs)[1] THEN keys
                  ELSE Append(keys, Head(pairs)[1]))

\* dict(pairs)[key]: the value of the last pair with this key
DictGet(pairs, key) ==
    LET last == CHOOSE i \in 1..Len(pairs) :
                    /\ pairs[i][1] = key
                    /\ \A j \in (i + 1)..Len(pairs) : pairs[j][1] # key
    IN pairs[last][2]

RECURSIVE SumPoints(_, _)
\* sum(match_dic[key] for key in match_dic)
SumPoints(keys, pairs) ==
    IF keys = << >> THEN 0
    ELSE PyInt(DictGet(pairs, Head(keys))).val + SumPoints(Tail(keys), pairs)

\* the keys of the generated investigator whose value is a string
StrKeys == {<<"d", "b">>}

SetSkillResult(flag, reply, select) ==
    [flag |-> flag, reply |-> reply, select |-> select, raised |-> FALSE]

\* an exception leaves set_skill: nothing is returned, self.select is as before
SetSkillRaised(select) ==
    [flag |-> FALSE, reply |-> "error", select |-> select, raised |-> TRUE]

RECURSIVE SetSkillLoop(_, _, _, _)
\* set_skill, lines 930-938: the loop over match_dic on the copy user_select_tmp
SetSkillLoop(keys, pairs, select, user_select_tmp) ==
    IF keys = << >> THEN SetSkillResult(TRUE, "ok", user_select_tmp)
    ELSE LET key == Head(keys) IN
         IF key \notin DOMAIN user_select_tmp
         THEN SetSkillResult(FALSE, "no_skill", select)
         ELSE IF key \in StrKeys THEN SetSkillRaised(select)
         ELSE LET value == user_select_tmp[key] + PyInt(DictGet(pairs, key)).val IN
              IF value > SkillCap THEN SetSkillResult(FALSE, "over_cap", select)
              ELSE SetSkillLoop(Tail(keys), pairs, select,
                                [user_select_tmp EXCEPT ![key] = value])

\* CreateInvestigator.set_skill: the answer and self.select afterwards
SetSkill(select, skill_point, skills) ==
    The({IF match = << >> THEN SetSkillRaised(select)
         ELSE IF ~IsDigit(match[Len(match)]) THEN SetSkillResult(FALSE, "format", select)
         ELSE The({IF \E i \in 1..Len(keys) : ~PyInt(DictGet(pairs, keys[i])).ok
                   THEN SetSkillRaised(select)
                   ELSE The({IF tol > skill_point
                                 THEN SetSkillResult(FALSE, "too_many", select)
                             ELSE IF tol < skill_point
                                 THEN SetSkillResult(FALSE, "too_few", select)
                             ELSE SetSkillLoop(keys, pairs, select, select)
                             : tol \in {SumPoints(keys, pairs)}})
                   : pairs \in {ZipPairs(match)}, keys \in {DictKeys(ZipPairs(match), << >>)}})
         : match \in {FindAll(skills, << >>, << >>)}})

\* the allocations a player writes: a key and its points
MaxEntries == 3
SkillKeys == {<<"s", "q">>, <<"b", "q">>, <<"x", "x">>, <<"d", "b">>}
SkillPoints == {30, 50, 55}
SkillEntries == UNION {[1..n -> [key : SkillKeys, points : SkillPoints]] : n \in 1..MaxEntries}
SkillForms == {"plain", "spaced", "trailing_key", "leading_number"}

RECURSIVE FormatEntries(_, _)
FormatEntries(entries, sep) ==
    IF entries = << >> THEN << >>
    ELSE Head(entries).key \o sep \o NatToStr(Head(entries).points)
            \o (IF Len(entries) > 1 THEN sep ELSE << >>) \o FormatEntries(Tail(entries), sep)

\* the text handed to /st: the entries in a row, with blanks between, with a
\* key that has no points at the end, or with a number in front
FormatSkills(entries, form) ==
    CASE form = "plain" -> FormatEntries(entries, << >>)
      [] form = "spaced" -> FormatEntries(entries, <<" ">>)
      [] form = "trailing_key" -> FormatEntries(entries, << >>) \o <<"s", "q">>
      [] form = "leading_number" -> <<"5">> \o FormatEntries(entries, << >>)

\* the investigators choose_investigator can select, as _generate_single_investigator
\* makes them: 教育 (2d6+6)*5, 智力 3d6*5, the default skills and the db string
Selected(jy, zl) ==
    (<<"j", "y">> :> jy) @@ (<<"z", "l">> :> zl) @@ (<<"s", "q">> :> 20)
        @@ (<<"b", "q">> :> 25) @@ (<<"d", "b">> :> <<"0">>)

Selections == {Selected(40, 15), Selected(40, 40)}

-----------------------------------------------------------------------------
(* Shop.py and database/db.py: a purchase *)

\* SHOP_DATA: the items on sale today and their prices
SHOP_DATA == ("101" :> 2) @@ ("301" :> 3)

\* reduce_gold, the body of the coroutine: what it returns and User.gold afterwards
ReduceGold(gold_num, num, force) ==
    IF gold_num < num
    THEN IF ~force THEN [ret |-> FALSE, gold |-> gold_num] ELSE [ret |-> TRUE, gold |-> 0]
    ELSE [ret |-> TRUE, gold |-> gold_num - num]

\* reduce_gold(uid, n) as buy_item calls it: reduce_gold is an async def behind
\* the synchronous Decorator, the call is not awaited, so what comes back is the
\* coroutine object (true in a condition) and the body above does not run
ReduceGoldNotAwaited(gold_num, num) ==
    [ret |-> TRUE, gold |-> gold_num, pending |-> ReduceGold(gold_num, num, FALSE)]

\* buy_item: the answer, User.gold and the quantity of the item afterwards
BuyItem(gold_num, quantity, item_id, num) ==
    IF item_id \notin DOMAIN SHOP_DATA \/ SHOP_DATA[item_id] = 0
    THEN [ret |-> "not_listed", gold |-> gold_num, quantity |-> quantity]
    ELSE The({IF r.ret
              THEN [ret |-> "bought", gold |-> r.gold, quantity |-> quantity + num]
              ELSE [ret |-> "no_gold", gold |-> r.gold, quantity |-> quantity]
              : r \in {ReduceGoldNotAwaited(gold_num, SHOP_DATA[item_id] * num)}})

MaxGold == 7
MaxNum == 2
MaxQuantity == 1

\* the calls of pure functions that are examined: the function and its arguments
CheckCalls ==
    [fn : {"check"}, done : {FALSE}, skill : 0..MaxSkill, roll : D100, level : {0}]

ConfrontationCalls ==
    [fn : {"confrontation"}, done : {FALSE}, level1 : Levels, level2 : Levels,
     action_type : {"dodge", "counter", "first"},
     skill1 : 1..MaxConfSkill, skill2 : 1..MaxConfSkill, result : {FALSE}]

RollDiceCalls ==
    [fn : {"roll_dice"}, done : {FALSE}, terms : TermSeqs, use_max : BOOLEAN,
     ok : {FALSE}, total : {0}]

DamageCalls ==
    [fn : {"damage"}, done : {FALSE}, damage : DamageExprs, level : Levels,
     extra : BOOLEAN, armor : 0..MaxArmor, ok : {FALSE}, raw : {0}, total : {0}]

\* handle_set_skill for a user whose creator has selected an investigator
SetSkillCalls ==
    {[fn |-> "set_skill", done |-> FALSE, creating |-> creating, select |-> select,
      skill_point |-> select[<<"j", "y">>] + select[<<"z", "l">>],
      entries |-> entries, form |-> form,
      before |-> select, flag |-> FALSE, reply |-> "", created |-> FALSE]
     : creating \in BOOLEAN, select \in Selections, entries \in SkillEntries,
       form \in SkillForms}

\* handle_buy_cmd: a user with some gold and some quantity of the item buys num
BuyCalls ==
    [fn : {"buy_item"}, done : {FALSE}, item_id : {"101", "301", "102"}, num : 1..MaxNum,
     gold_before : 0..MaxGold, quantity_before : 0..MaxQuantity,
     ret : {""}, gold : {0}, quantity : {0}]

\* PenaltyDiceRoll(skill, penalty_dice): the d100 outcome and the digits drawn
PenaltyCalls ==
    [fn : {"penalty"}, done : {FALSE}, skill : PenaltySkills, dice : D100,
     penalty_rolls : UNION {[1..k -> 0..9] : k \in 1..MaxPenaltyDice},
     final_result : {0}, level : {0}]

InitDice ==
    /\ \/ call \in CheckCalls
       \/ call \in PenaltyCalls
       \/ call \in SetSkillCalls
       \/ call \in BuyCalls
       \/ call \in ConfrontationCalls
       \/ call \in RollDiceCalls
       \/ call \in DamageCalls
    /\ IdleSession
    /\ user_states = << >>

\* DiceRoll(skill) with the d100 outcome roll
DoRollCheck ==
    /\ call.fn = "check" /\ ~call.done
    /\ call' = [call EXCEPT !.done = TRUE,
                            !.level = CalculateSuccessLevel(call.skill, call.roll)]
    /\ UNCHANGED sessionVars

\* ConfrontationRoll.get_result(action_type) for the two levels rolled
DoConfrontation ==
    /\ call.fn = "confrontation" /\ ~call.done
    /\ call' = [call EXCEPT !.done = TRUE,
                            !.result = CheckConfrontation(call.level1, call.level2,
                                           call.action_type, call.skill1, call.skill2)]
    /\ UNCHANGED sessionVars

\* roll_dice(expression, use_max)
DoRollDice ==
    /\ call.fn = "roll_dice" /\ ~call.done
    /\ \E r \in {RollDice(FormatExpr(call.terms), call.use_max)} :
          \/ /\ ~r.ok
             /\ call' = [call EXCEPT !.done = TRUE]
          \/ /\ r.ok
             /\ \E t \in r.vals :
                   call' = [call EXCEPT !.done = TRUE, !.ok = TRUE, !.total = t]
    /\ UNCHANGED sessionVars

\* CombatSystem._calculate_damage_expression(damage, success_level, extra_damage, armor)
DoCalculateDamage ==
    /\ call.fn = "damage" /\ ~call.done
    /\ \E r \in {CalculateDamageExpression(call.damage, call.level, call.extra,
                                             call.armor)} :
          \/ /\ ~r.ok
             /\ call' = [call EXCEPT !.done = TRUE]
          \/ /\ r.ok
             /\ \E v \in r.vals :
                   call' = [call EXCEPT !.done = TRUE, !.ok = TRUE,
                                        !.raw = v.raw, !.total = v.total]
    /\ UNCHANGED sessionVars

\* PenaltyDiceRoll.__init__ with the d100 outcome and the digits of the call
DoPenaltyRoll ==
    /\ call.fn = "penalty" /\ ~call.done
    /\ \E final_result \in {ApplyPenaltyDice(call.dice, call.penalty_rolls, call.dice)} :
          call' = [call EXCEPT !.done = TRUE,
                               !.final_result = final_result,
                               !.level = CalculateSuccessLevel(call.skill, final_result)]
    /\ UNCHANGED sessionVars

\* handle_set_skill: nothing outside the creating state; set_skill on the text,
\* and after a success create_investigator and the end of the creating state
DoSetSkill ==
    /\ call.fn = "set_skill" /\ ~call.done
    /\ IF ~call.creating THEN call' = [call EXCEPT !.done = TRUE, !.reply = "ignored"]
       ELSE \E r \in {SetSkill(call.select, call.skill_point,
                               FormatSkills(call.entries, call.form))} :
              call' = [call EXCEPT !.done = TRUE, !.select = r.select,
                                   !.flag = r.flag, !.reply = r.reply,
                                   !.created = r.flag,
                                   !.creating = ~r.flag]
    /\ UNCHANGED sessionVars

\* handle_buy_cmd: buy_item(qq, item_id, num)
DoBuyItem ==
    /\ call.fn = "buy_item" /\ ~call.done
    /\ \E r \in {BuyItem(call.gold_before, call.quantity_before, call.item_id, call.num)} :
          call' = [call EXCEPT !.done = TRUE, !.ret = r.ret, !.gold = r.gold,
                               !.quantity = r.quantity]
    /\ UNCHANGED sessionVars

NextDice ==
    \/ DoRollCheck \/ DoConfrontation \/ DoRollDice \/ DoCalculateDamage
    \/ DoPenaltyRoll \/ DoSetSkill \/ DoBuyItem

SpecDice == InitDice /\ [][NextDice]_vars

-----------------------------------------------------------------------------
(* The claims about the pure functions, checked under SpecDice *)

\* C3: with armor > 0 the damage calculator never returns an amount below 0,
\* and never one below 1 when the source has penetration and the pre-armor
\* total is above 0
C3_ArmorFloors ==
    (call.fn = "damage" /\ call.done /\ call.ok /\ call.armor > 0) =>
        /\ call.total >= 0
        /\ (call.extra /\ call.raw > 0) => call.total >= 1

\* C4: for a skill >= 1 the level of a roll follows the fixed thresholds: above
\* 95 CriticalFailure, below 6 CriticalSuccess, and for 6..95 Failure iff
\* roll > skill, Success iff skill/2 < roll <= skill, HardSuccess iff
\* skill/5 < roll <= skill/2, ExtremeSuccess iff roll <= skill/5
C4_RollCheckThresholds ==
    (call.fn = "check" /\ call.done /\ call.skill >= 1) =>
        LET s == call.skill
            r == call.roll
            l == call.level
        IN /\ l \in Levels
           /\ (l = CRITICAL_FAILURE) <=> (r > 95)
           /\ (l = CRITICAL_SUCCESS) <=> (r < 6)
           /\ (r >= 6 /\ r <= 95) =>
                /\ (l = FAILURE) <=> (r > s)
                /\ (l = SUCCESS) <=> (s < 2 * r /\ r <= s)
                /\ (l = HARD_SUCCESS) <=> (s < 5 * r /\ 2 * r <= s)
                /\ (l = EXTREME_SUCCESS) <=> (5 * r <= s)

\* skill 50 against roll 10: the ratio is exactly 0.2 and the level is ExtremeSuccess
C4_Witness ==
    /\ call.fn = "check" /\ call.done
    /\ call.skill = 50 /\ call.roll = 10 /\ call.level = EXTREME_SUCCESS

\* C5: in counter mode side A never wins with a level of Failure or below,
\* whatever the opponent's level and the skills; above Failure it wins iff
\* its level is at least the opponent's
C5_CounterNeedsSuccess ==
    (call.fn = "confrontation" /\ call.done /\ call.action_type = "counter") =>
        /\ call.level1 <= FAILURE => ~call.result
        /\ call.level1 > FAILURE => (call.result <=> call.level1 >= call.level2)

\* a failed counter against a critically failed opponent is still no win
C5_Witness ==
    /\ call.fn = "confrontation" /\ call.done /\ call.action_type = "counter"
    /\ call.level1 = FAILURE /\ call.level2 = CRITICAL_FAILURE /\ ~call.result

\* C6: in maximum mode every valid expression yields its theoretical maximum,
\* the largest total a normal roll of the expression can produce
C6_MaxIsTheoreticalMax ==
    (call.fn = "roll_dice" /\ call.done /\ call.use_max /\ ValidTerms(call.terms)) =>
        /\ call.ok
        /\ call.total = TheoreticalMax(call.terms)

-----------------------------------------------------------------------------
(* Content the session reads: equipment catalog, monster catalog, characters *)

Parts == {"near", "far", "armor"}

\* the order in which equipped_items lists its parts
PartOrder == <<"near", "far", "armor">>

\* data_manager.goods_data: id -> entry.  "101" is the knife every new character
\* starts with; breakable is the entry's flag (True when the key is absent)
goods_data ==
    [id \in {"101", "102", "201", "202", "301"} |->
        CASE id = "101" ->
               [name |-> "pocket_knife", part |-> "near", damage |-> <<"1", "d", "4">>,
                skill |-> <<"melee">>, identify_skill |-> "melee", ex |-> FALSE,
                breakable |-> TRUE, bullet |-> 0, armor |-> 0]
          [] id = "102" ->
               [name |-> "club", part |-> "near", damage |-> <<"1", "d", "3">>,
                skill |-> <<"melee">>, identify_skill |-> "melee", ex |-> FALSE,
                breakable |-> FALSE, bullet |-> 0, armor |-> 0]
          [] id = "201" ->
               [name |-> "pistol", part |-> "far", damage |-> <<"1", "d", "3">>,
                skill |-> <<"shot", "shot2", "shot3", "reload">>,
                identify_skill |-> "pistol", ex |-> TRUE,
                breakable |-> TRUE, bullet |-> 4, armor |-> 0]
          [] id = "202" ->
               [name |-> "revolver", part |-> "far", damage |-> <<"2">>,
                skill |-> <<"shot", "reload">>,
                identify_skill |-> "pistol", ex |-> TRUE,
                breakable |-> TRUE, bullet |-> 3, armor |-> 0]
          [] id = "301" ->
               [name |-> "vest", part |-> "armor", damage |-> << >>,
                skill |-> << >>, identify_skill |-> "", ex |-> FALSE,
                breakable |-> TRUE, bullet |-> 0, armor |-> 1]]

ItemIds == DOMAIN goods_data

\* data_manager.monster_data: id -> entry, with the attacks Monster.get_action draws from
monster_data ==
    [id \in {"m1", "m2"} |->
        CASE id = "m1" ->
               [hp |-> 3, armor |-> 0, dex |-> 50,
                attacks |-> {[skill |-> 50, damage |-> <<"1", "d", "3">>, ex |-> FALSE]},
                items |-> <<"102">>, max_gold |-> 2]
          [] id = "m2" ->
               [hp |-> 2, armor |-> 1, dex |-> 50,
                attacks |-> {[skill |-> 50, damage |-> <<"2">>, ex |-> TRUE]},
                items |-> << >>, max_gold |-> 1]]

MonsterIds == DOMAIN monster_data

\* the characters examined: the equipment they enter the fight with and their
\* damage bonus
Scenarios ==
    { [eq |-> [near |-> "101", far |-> "", armor |-> ""], db |-> <<"-", "2">>],
      [eq |-> [near |-> "102", far |-> "201", armor |-> ""], db |-> <<"0">>],
      [eq |-> [near |-> "101", far |-> "202", armor |-> "301"], db |-> <<"1", "d", "4">>],
      [eq |-> [near |-> "", far |-> "", armor |-> ""], db |-> <<"0">>] }

\* hit points of the characters examined
MaxHp == 3

\* a fight is followed while the monster's hit points stay at or below HpCap
HpCap == 4

\* the d100 outcomes examined in a session (for a skill of 50: CriticalSuccess,
\* Success, Failure, CriticalFailure) and the penalty digits examined
RollSample == {3, 40, 70, 98}
PenaltySample == {0, 9}

\* the attribute left unassigned by CombatSystem.__init__ when no gun is equipped
Unset == -1

\* action2part
Action2Part(action) ==
    CASE action \in {"melee", "counter", "axe", "sword", "chainsaw"} -> "near"
      [] action \in {"shot", "shot3", "reload"} -> "far"
      [] action = "armor" -> "armor"
      [] OTHER -> ""

\* InvestigatorService.get_equipped_id: equipped_data.get(part, "")
GetEquippedId(equipped, part) ==
    IF part \in DOMAIN equipped THEN equipped[part] ELSE ""

RECURSIVE PlayerActions(_, _)
\* InvestigatorService.get_available_actions, the loop over equipped_data.items()
PlayerActions(equipped, parts) ==
    IF parts = << >> THEN << >>
    ELSE LET item_id == equipped[Head(parts)] IN
         (IF item_id \in ItemIds THEN goods_data[item_id].skill ELSE << >>)
             \o PlayerActions(equipped, Tail(parts))

\* InvestigatorService.get_available_actions
GetAvailableActions(equipped) ==
    [inv |-> PlayerActions(equipped, PartOrder), mon |-> <<"counter", "dodge">>]

\* InvestigatorService.get_armor, as the int the callers make of it
GetArmor(equipped) ==
    LET item_id == GetEquippedId(equipped, "armor") IN
    IF item_id = "" THEN 0
    ELSE IF item_id \in ItemIds THEN goods_data[item_id].armor ELSE 0

\* InvestigatorService.remove_item_from_inventory with quantity 1
RemoveItemFromInventory(inv, item_id) ==
    IF inv[item_id] > 0 THEN [inv EXCEPT ![item_id] = IF @ <= 1 THEN 0 ELSE @ - 1]
    ELSE inv

\* InvestigatorService.add_item_to_inventory with quantity 1
AddItemToInventory(inv, item_id) == [inv EXCEPT ![item_id] = @ + 1]

-----------------------------------------------------------------------------
(* Fight.py: one execute_action call, computed on a working copy w of the   *)
(* session (hp, eq, inv, acts, gun, bullet, turn, alive, day, and the       *)
(* player_info and monster the CombatSystem was built with) together with   *)
(* what the call returns (ret) and what it rolled (tr).  Every operator     *)
(* yields the set of copies the call can end in, one per dice outcome.      *)

EmptyTrace ==
    [rolled |-> 0, levels |-> << >>, shots |-> << >>, to_mon |-> 0, to_inv |-> 0,
     self |-> 0, search |-> << >>]

\* player_info.get(name, default) for a skill name
PlayerSkill(w, name, default) ==
    IF name \in DOMAIN w.info THEN w.info[name] ELSE default

\* Monster.damage_to_mon: the amount the monster loses, net of its armor field
DamageToMon(w, damage) ==
    LET armor == monster_data[w.monster].armor IN
    IF armor > 0 THEN Max2(0, damage - armor) ELSE damage

\* CombatSystem._apply_damage_to_monster
ApplyDamageToMonster(w, damage) ==
    [w EXCEPT !.hp.mon = @ - DamageToMon(w, damage), !.tr.to_mon = @ + damage]

\* CombatSystem._apply_damage_to_player
ApplyDamageToPlayer(w, damage) ==
    [w EXCEPT !.hp.inv = @ - damage, !.tr.to_inv = @ + damage]

\* InvestigatorService.break_equipped_item
BreakEquippedItem(w, action) ==
    LET part == Action2Part(action)
        item_id == GetEquippedId(w.eq, part)
    IN IF item_id = "" THEN w
       ELSE IF ~goods_data[item_id].breakable THEN w
       ELSE [w EXCEPT !.inv = RemoveItemFromInventory(@, item_id), !.eq[part] = ""]

\* LootService.get_loot_reward with the lines 594-599 of _handle_victory: the
\* gold of the loot roll goes to the reply only, the item to the inventory
GetLootReward(w, gold_reward) ==
    LET items == monster_data[w.monster].items
    IN IF items = << >> THEN {w}
       ELSE {[w EXCEPT !.inv = AddItemToInventory(@, items[i])] : i \in 1..Len(items)}

\* _handle_victory with the day counter advanced only in the branch of a
\* successful search
HandleVictoryDayOnSuccess(w) ==
    UNION {
        LET level == CalculateSuccessLevel(PlayerSkill(w, "spot", 25), roll)
            w1 == [w EXCEPT !.tr.rolled = @ + 1, !.tr.search = <<level>>,
                            !.day = IF level > FAILURE THEN w.info.day + 1 ELSE @]
        IN IF level > FAILURE
           THEN UNION {GetLootReward(w1, gold_reward) :
                          gold_reward \in 1..monster_data[w.monster].max_gold}
           ELSE {w1}
        : roll \in RollSample }

\* CombatSystem._handle_victory: the search check, the loot and the day counter
HandleVictory(w) ==
    UNION {
        LET level == CalculateSuccessLevel(PlayerSkill(w, "spot", 25), roll)
            w1 == [w EXCEPT !.tr.rolled = @ + 1, !.tr.search = <<level>>,
                            !.day = w.info.day + 1]
        IN IF level > FAILURE
           THEN UNION {GetLootReward(w1, gold_reward) :
                          gold_reward \in 1..monster_data[w.monster].max_gold}
           ELSE {w1}
        : roll \in RollSample }

\* _end_turn without the call of mark_as_deceased
EndTurnNoDeceased(w) ==
    IF w.hp.inv > 0 /\ w.hp.mon > 0
    THEN {[w EXCEPT !.turn = IF @ = "inv" THEN "mon" ELSE "inv"]}
    ELSE IF w.hp.inv <= 0 THEN {w}
    ELSE HandleVictory(w)

\* _end_turn that leaves current_turn as it is
EndTurnNoFlip(w) ==
    IF w.hp.inv > 0 /\ w.hp.mon > 0 THEN {w}
    ELSE IF w.hp.inv <= 0 THEN {[w EXCEPT !.alive = FALSE]}
    ELSE HandleVictory(w)

\* CombatSystem._end_turn
EndTurn(w) ==
    IF w.hp.inv > 0 /\ w.hp.mon > 0
    THEN {[w EXCEPT !.turn = IF @ = "inv" THEN "mon" ELSE "inv"]}
    ELSE IF w.hp.inv <= 0 THEN {[w EXCEPT !.alive = FALSE]}
    ELSE HandleVictory(w)

\* CombatSystem._handle_critical_failure
HandleCriticalFailure(w, equipment, action) ==
    LET hurt == IF equipment # "pocket_knife" THEN {w}
                ELSE {[ApplyDamageToPlayer(w, d) EXCEPT !.tr.self = d] :
                         d \in RollDice(<<"1", "d", "4">>, FALSE).vals}
    IN {LET b == BreakEquippedItem(w1, action)
        IN [b EXCEPT !.acts = GetAvailableActions(b.eq)] : w1 \in hurt}

\* CombatSystem._handle_successful_attack
HandleSuccessfulAttack(w, level1, equipped_item) ==
    LET damage == WithBonus(goods_data[equipped_item].damage, w.info.db)
        r == CalculateDamageExpression(damage, level1,
                                       goods_data[equipped_item].ex, 0)
    IN IF ~r.ok THEN {[w EXCEPT !.ret = "error"]}
       ELSE UNION {EndTurn(ApplyDamageToMonster(w, v.total)) : v \in r.vals}

\* _handle_failed_attack without the branch for two missed checks
HandleFailedAttackAlwaysCounter(w, level1, level2, monster_action) ==
    LET r == CalculateDamageExpression(monster_action.damage, 0, FALSE,
                                       GetArmor(w.eq))
    IN IF ~r.ok THEN {[w EXCEPT !.ret = "error"]}
       ELSE UNION {EndTurn(ApplyDamageToPlayer(w, v.total)) : v \in r.vals}

\* CombatSystem._handle_failed_attack
HandleFailedAttack(w, level1, level2, monster_action) ==
    IF level1 < 1 /\ level2 < 1 THEN EndTurn(w)
    ELSE LET r == CalculateDamageExpression(monster_action.damage, 0, FALSE,
                                            GetArmor(w.eq))
         IN IF ~r.ok THEN {[w EXCEPT !.ret = "error"]}
            ELSE UNION {EndTurn(ApplyDamageToPlayer(w, v.total)) : v \in r.vals}

\* CombatSystem._melee_attack
MeleeAttack(w, action) ==
    LET equipped_item == GetEquippedId(w.eq, Action2Part(action)) IN
    IF equipped_item = "" THEN {[w EXCEPT !.ret = "empty"]}
    ELSE UNION {
        LET player_skill == PlayerSkill(w, action, 25)
            level1 == CalculateSuccessLevel(player_skill, dice1)
            level2 == CalculateSuccessLevel(monster_action.skill, dice2)
            player_wins == CheckConfrontation(level1, level2, "counter",
                                              player_skill, monster_action.skill)
            w0 == [w EXCEPT !.ret = "resolved", !.tr.rolled = @ + 2,
                            !.tr.levels = <<level1, level2>>]
            w1s == IF level1 = CRITICAL_FAILURE
                   THEN HandleCriticalFailure(w0, goods_data[equipped_item].name, action)
                   ELSE {w0}
        IN IF ZeroDivision \in {level1, level2} THEN {[w EXCEPT !.ret = "error"]}
           ELSE UNION {IF player_wins
                       THEN HandleSuccessfulAttack(w1, level1, equipped_item)
                       ELSE HandleFailedAttack(w1, level1, level2, monster_action)
                       : w1 \in w1s}
        : monster_action \in monster_data[w.monster].attacks,
          dice1 \in RollSample, dice2 \in RollSample }

\* CombatSystem._single_shot
SingleShot(w, action) ==
    LET equipped_item == GetEquippedId(w.eq, Action2Part(action)) IN
    IF equipped_item = "" THEN {[w EXCEPT !.ret = "empty"]}
    ELSE UNION {
        LET player_skill == PlayerSkill(w, goods_data[equipped_item].identify_skill, 20)
            level == CalculateSuccessLevel(player_skill, dice)
            w0 == [w EXCEPT !.ret = "resolved", !.tr.rolled = @ + 1]
        IN IF level = ZeroDivision THEN {[w EXCEPT !.ret = "error"]}
           ELSE IF level > FAILURE
           THEN LET r == CalculateDamageExpression(goods_data[equipped_item].damage,
                                                   level, TRUE, 0)
                IN IF ~r.ok THEN {[w0 EXCEPT !.ret = "error"]}
                   ELSE UNION {EndTurn(ApplyDamageToMonster(
                                  [w0 EXCEPT !.tr.shots =
                                      Append(@, [level |-> level, damage |-> v.total])],
                                  v.total)) : v \in r.vals}
           ELSE IF level = CRITICAL_FAILURE
           THEN LET b == BreakEquippedItem(
                            [w0 EXCEPT !.tr.shots =
                                Append(@, [level |-> level, damage |-> 0])], action)
                IN EndTurn([b EXCEPT !.gun = "", !.acts = GetAvailableActions(b.eq)])
           ELSE EndTurn([w0 EXCEPT !.tr.shots =
                            Append(@, [level |-> level, damage |-> 0])])
        : dice \in RollSample }

RECURSIVE ShotLoop(_, _, _, _, _)
\* _multiple_shot without the break at a critical failure: the loop goes on
\* with the shots that are left
ShotLoopNoBreak(w, equipped_item, action, remaining, total_damage) ==
    IF remaining = 0 THEN EndTurn(ApplyDamageToMonster(w, total_damage))
    ELSE UNION {
        LET player_skill == PlayerSkill(w, goods_data[equipped_item].identify_skill, 20)
            final_result == ApplyPenaltyDice(dice, <<penalty_value>>, dice)
            level == CalculateSuccessLevel(player_skill, final_result)
            w0 == [w EXCEPT !.tr.rolled = @ + 1]
        IN IF ZeroDivision \in {level, CalculateSuccessLevel(player_skill, dice)}
           THEN {[w EXCEPT !.ret = "error"]}
           ELSE IF level = CRITICAL_FAILURE
           THEN LET b == BreakEquippedItem(
                            [w0 EXCEPT !.tr.shots =
                                Append(@, [level |-> level, damage |-> 0])], action)
                IN ShotLoop([b EXCEPT !.gun = "", !.acts = GetAvailableActions(b.eq)],
                            equipped_item, action, remaining - 1, total_damage)
           ELSE IF level > FAILURE
           THEN LET r == CalculateDamageExpression(goods_data[equipped_item].damage,
                                                   level, TRUE, 0)
                IN IF ~r.ok THEN {[w0 EXCEPT !.ret = "error"]}
                   ELSE UNION {ShotLoop(
                                  [w0 EXCEPT !.tr.shots =
                                      Append(@, [level |-> level, damage |-> v.total])],
                                  equipped_item, action, remaining - 1,
                                  total_damage + v.total) : v \in r.vals}
           ELSE ShotLoop([w0 EXCEPT !.tr.shots =
                             Append(@, [level |-> level, damage |-> 0])],
                         equipped_item, action, remaining - 1, total_damage)
        : dice \in RollSample, penalty_value \in PenaltySample }

\* CombatSystem._multiple_shot, the loop over the shots and the lines after it:
\* remaining shots to roll, total_damage accumulated so far
ShotLoop(w, equipped_item, action, remaining, total_damage) ==
    IF remaining = 0 THEN EndTurn(ApplyDamageToMonster(w, total_damage))
    ELSE UNION {
        LET player_skill == PlayerSkill(w, goods_data[equipped_item].identify_skill, 20)
            final_result == ApplyPenaltyDice(dice, <<penalty_value>>, dice)
            level == CalculateSuccessLevel(player_skill, final_result)
            w0 == [w EXCEPT !.tr.rolled = @ + 1]
        IN IF ZeroDivision \in {level, CalculateSuccessLevel(player_skill, dice)}
           THEN {[w EXCEPT !.ret = "error"]}
           ELSE IF level = CRITICAL_FAILURE
           THEN LET b == BreakEquippedItem(
                            [w0 EXCEPT !.tr.shots =
                                Append(@, [level |-> level, damage |-> 0])], action)
                IN EndTurn(ApplyDamageToMonster(
                       [b EXCEPT !.gun = "", !.acts = GetAvailableActions(b.eq)],
                       total_damage))
           ELSE IF level > FAILURE
           THEN LET r == CalculateDamageExpression(goods_data[equipped_item].damage,
                                                   level, TRUE, 0)
                IN IF ~r.ok THEN {[w0 EXCEPT !.ret = "error"]}
                   ELSE UNION {ShotLoop(
                                  [w0 EXCEPT !.tr.shots =
                                      Append(@, [level |-> level, damage |-> v.total])],
                                  equipped_item, action, remaining - 1,
                                  total_damage + v.total) : v \in r.vals}
           ELSE ShotLoop([w0 EXCEPT !.tr.shots =
                             Append(@, [level |-> level, damage |-> 0])],
                         equipped_item, action, remaining - 1, total_damage)
        : dice \in RollSample, penalty_value \in PenaltySample }

\* CombatSystem._multiple_shot
MultipleShot(w, shot_count, action) ==
    LET equipped_item == GetEquippedId(w.eq, Action2Part(action)) IN
    IF equipped_item = "" THEN {[w EXCEPT !.ret = "empty"]}
    ELSE ShotLoop([w EXCEPT !.ret = "resolved"], equipped_item, action, shot_count, 0)

\* _ranged_attack with the ammunition deducted before it is compared
RangedAttackDeductFirst(w, shot_count, action) ==
    IF w.bullet = Unset THEN {[w EXCEPT !.ret = "error"]}
    ELSE LET w1 == [w EXCEPT !.bullet = @ - shot_count] IN
         IF w1.bullet < 0 THEN {[w1 EXCEPT !.ret = "noammo"]}
         ELSE IF shot_count > 1 THEN MultipleShot(w1, shot_count, action)
         ELSE SingleShot(w1, action)

\* CombatSystem._ranged_attack; reading self.bullet raises AttributeError when
\* __init__ found no gun
RangedAttack(w, shot_count, action) ==
    IF w.bullet = Unset THEN {[w EXCEPT !.ret = "error"]}
    ELSE IF w.bullet < shot_count THEN {[w EXCEPT !.ret = "noammo"]}
    ELSE LET w1 == [w EXCEPT !.bullet = @ - shot_count] IN
         IF shot_count > 1 THEN MultipleShot(w1, shot_count, action)
         ELSE SingleShot(w1, action)

\* CombatSystem._handle_monster_success
HandleMonsterSuccess(w, monster_action, level1) ==
    LET r == CalculateDamageExpression(monster_action.damage, level1,
                                       monster_action.ex, GetArmor(w.eq))
    IN IF ~r.ok THEN {[w EXCEPT !.ret = "error"]}
       ELSE {ApplyDamageToPlayer(w, v.total) : v \in r.vals}

\* CombatSystem._handle_successful_counter
HandleSuccessfulCounter(w) ==
    LET equipped_item == GetEquippedId(w.eq, Action2Part("counter")) IN
    IF equipped_item = "" THEN {w}
    ELSE LET damage == WithBonus(goods_data[equipped_item].damage, w.info.db)
             r == CalculateDamageExpression(damage, 0, FALSE, 0)
         IN IF ~r.ok THEN {[w EXCEPT !.ret = "error"]}
            ELSE {ApplyDamageToMonster(w, v.total) : v \in r.vals}

\* CombatSystem._handle_defensive_action, lines 395-397: the player's skill,
\* the melee skill when the action names no skill or a skill of 0
DefenseSkill(w, action) ==
    IF PlayerSkill(w, action, 0) # 0 THEN PlayerSkill(w, action, 0)
    ELSE PlayerSkill(w, "melee", 25)

\* CombatSystem._handle_defensive_action
HandleDefensiveAction(w, action) ==
    LET equipped_item == IF action = "dodge" THEN ""
                         ELSE GetEquippedId(w.eq, Action2Part(action))
    IN
    IF action # "dodge" /\ equipped_item = "" THEN {[w EXCEPT !.ret = "empty"]}
    ELSE UNION {
        LET player_skill == DefenseSkill(w, action)
            level1 == CalculateSuccessLevel(monster_action.skill, dice1)
            level2 == CalculateSuccessLevel(player_skill, dice2)
            monster_succeeds == CheckConfrontation(level1, level2, action,
                                                   monster_action.skill, player_skill)
            w0 == [w EXCEPT !.ret = "resolved", !.tr.rolled = @ + 2,
                            !.tr.levels = <<level1, level2>>]
            w1s == IF level2 = CRITICAL_FAILURE /\ action # "dodge"
                   THEN HandleCriticalFailure(w0, goods_data[equipped_item].name, action)
                   ELSE {w0}
        IN IF ZeroDivision \in {level1, level2} THEN {[w EXCEPT !.ret = "error"]}
           ELSE UNION {
               LET w2s == IF monster_succeeds
                          THEN HandleMonsterSuccess(w1, monster_action, level1)
                          ELSE IF action = "dodge" THEN {w1}
                          ELSE IF level1 < 1 /\ level2 < 1 THEN {w1}
                          ELSE HandleSuccessfulCounter(w1)
               IN UNION {IF w2.ret = "error" THEN {w2} ELSE EndTurn(w2) : w2 \in w2s}
               : w1 \in w1s}
        : monster_action \in monster_data[w.monster].attacks,
          dice1 \in RollSample, dice2 \in RollSample }

\* CombatSystem._execute_player_action, the shot counts of the ranged entries
ShotCount == [shot |-> 1, shot2 |-> 2, shot3 |-> 3]

\* CombatSystem._execute_player_action: the "reload" entry returns the bound
\* method _change_bomb without calling it
ExecutePlayerAction(w, action) ==
    CASE action = "melee" -> MeleeAttack(w, action)
      [] action \in DOMAIN ShotCount -> RangedAttack(w, ShotCount[action], action)
      [] action = "reload" -> {[w EXCEPT !.ret = "method"]}
      [] OTHER -> {[w EXCEPT !.ret = "empty"]}

\* CombatSystem._execute_monster_action
ExecuteMonsterAction(w, action) ==
    CASE action = "counter" -> HandleDefensiveAction(w, "counter")
      [] action = "dodge" -> HandleDefensiveAction(w, "dodge")
      [] OTHER -> {[w EXCEPT !.ret = "empty"]}

\* CombatSystem.execute_action
ExecuteAction(w, action) ==
    IF w.turn = "inv" THEN ExecutePlayerAction(w, action)
    ELSE ExecuteMonsterAction(w, action)

\* fight_is_over that looks at the player's hit points only
FightIsOverPlayerOnly(hp) == hp.inv <= 0

\* CombatSystem.fight_is_over
FightIsOver(hp) == hp.inv <= 0 \/ hp.mon <= 0

-----------------------------------------------------------------------------
(* The session: start.py and the command handlers of __init__.py *)

\* the Investigator row of a character: skills as allocated at creation, the
\* damage bonus calculate_damage_bonus gave, hit points, day
Character(db) ==
    [melee |-> 50, dodge |-> 30, pistol |-> 50, spot |-> 25, dex |-> 50,
     db |-> db, hp |-> MaxHp, day |-> 1]

Init ==
    /\ call = [fn |-> "none"]
    /\ in_fight = FALSE
    /\ current_turn = "none"
    /\ current_action = ""
    /\ hp_record = [inv |-> 0, mon |-> 0]
    /\ gun = ""
    /\ bullet = Unset
    /\ max_bullet = Unset
    /\ available_actions = [inv |-> << >>, mon |-> << >>]
    /\ \E sc \in Scenarios :
          /\ player_info = Character(sc.db)
          /\ equipped_items = sc.eq
    /\ monster = ""
    /\ inventory = [id \in ItemIds |->
                       IF \E part \in Parts : equipped_items[part] = id THEN 1 ELSE 0]
    /\ issurvive = TRUE
    /\ day = player_info.day
    /\ gold = 0
    /\ user_states = << >>
    /\ ret = ""
    /\ trace = EmptyTrace

\* start_combat, CombatSystem.__init__ and first_turn with the contest of
\* first(): the combats a character with this equipment can be put in
StartCombat(info, equipped) ==
    UNION {
        LET level1 == CalculateSuccessLevel(info.dex, dice1)
            level2 == CalculateSuccessLevel(monster_data[monster_id].dex, dice2)
            equipped_gun == GetEquippedId(equipped, "far")
        IN IF ZeroDivision \in {level1, level2} THEN {}
           ELSE {[monster |-> monster_id,
                  hp |-> [inv |-> info.hp, mon |-> monster_data[monster_id].hp],
                  acts |-> GetAvailableActions(equipped),
                  gun |-> equipped_gun,
                  bullet |-> IF equipped_gun # "" THEN goods_data[equipped_gun].bullet
                             ELSE Unset,
                  turn |-> IF CheckConfrontation(level1, level2, "first", info.dex,
                                                 monster_data[monster_id].dex)
                           THEN "inv" ELSE "mon"]}
        : monster_id \in MonsterIds, dice1 \in RollSample, dice2 \in RollSample }

\* handle_adventure: Adventure.StartAdventure
StartAdventure ==
    /\ current_turn = "none"
    /\ \E combat \in StartCombat(player_info, equipped_items) :
          /\ monster' = combat.monster
          /\ hp_record' = combat.hp
          /\ available_actions' = combat.acts
          /\ gun' = combat.gun
          /\ bullet' = combat.bullet
          /\ max_bullet' = combat.bullet
          /\ current_turn' = combat.turn
          /\ in_fight' = TRUE
    /\ UNCHANGED <<call, current_action, player_info, equipped_items, inventory,
                   issurvive, day, gold, user_states, ret, trace>>

\* handle_fight with Adventure.run_adventure: one command of a user in a fight
HandleFight(action) ==
    /\ in_fight
    /\ LET w0 == [hp |-> hp_record, eq |-> equipped_items, inv |-> inventory,
                  acts |-> available_actions, gun |-> gun, bullet |-> bullet,
                  turn |-> current_turn, alive |-> issurvive, day |-> day,
                  info |-> player_info, monster |-> monster,
                  ret |-> "", tr |-> EmptyTrace]
       IN \E w \in ExecuteAction(w0, action) :
             /\ w.hp.mon <= HpCap
             /\ hp_record' = w.hp
             /\ equipped_items' = w.eq
             /\ inventory' = w.inv
             /\ available_actions' = w.acts
             /\ gun' = w.gun
             /\ bullet' = w.bullet
             /\ current_turn' = w.turn
             /\ issurvive' = w.alive
             /\ day' = w.day
             /\ ret' = w.ret
             /\ trace' = w.tr
             /\ in_fight' = IF w.ret \in {"empty", "error"} THEN in_fight
                            ELSE ~FightIsOver(w.hp)
    /\ current_action' = action
    /\ UNCHANGED <<call, max_bullet, player_info, monster, gold, user_states>>

\* handle_fight for a user whose fight is over: the command is dropped
DroppedCommand ==
    /\ ~in_fight
    /\ current_turn # "none"
    /\ ret' = "dropped"
    /\ trace' = EmptyTrace
    /\ UNCHANGED <<call, in_fight, current_turn, current_action, hp_record, gun,
                   bullet, max_bullet, available_actions, player_info, monster,
                   equipped_items, inventory, issurvive, day, gold, user_states>>

Melee == HandleFight("melee")
Shot == HandleFight("shot")
DoubleShot == HandleFight("shot2")
TripleShot == HandleFight("shot3")
Reload == HandleFight("reload")
Counter == HandleFight("counter")
Dodge == HandleFight("dodge")
OtherCommand == HandleFight("other")

Next ==
    \/ StartAdventure
    \/ Melee
    \/ Shot
    \/ DoubleShot
    \/ TripleShot
    \/ Reload
    \/ Counter
    \/ Dodge
    \/ OtherCommand
    \/ DroppedCommand

Spec == Init /\ [][Next]_vars

-----------------------------------------------------------------------------
(* Two users of the plugin: user_states and the Investigator rows are keyed *)
(* by the id of the sender, every adventure has a CombatSystem of its own   *)

Players == {"p1", "p2"}

Commands == {"melee", "shot", "shot2", "shot3", "reload", "counter", "dodge", "other"}

\* the id of the console branch of the handlers: one key for every sender
UserIdConsole(sender) == "p1"

\* the handlers' qq = str(event.get_user_id())
UserId(sender) == sender

\* the characters of the two users: one with the revolver, one with the club
PairScenarios ==
    [p1 |-> [eq |-> [near |-> "", far |-> "202", armor |-> ""], db |-> <<"0">>],
     p2 |-> [eq |-> [near |-> "102", far |-> "", armor |-> ""], db |-> <<"0">>]]

\* a user before the first adventure: the Investigator row and its equipment
NewUser(sc) ==
    [in_fight |-> FALSE, turn |-> "none", hp |-> [inv |-> 0, mon |-> 0],
     gun |-> "", bullet |-> Unset, max_bullet |-> Unset,
     acts |-> [inv |-> << >>, mon |-> << >>],
     info |-> Character(sc.db), monster |-> "", eq |-> sc.eq,
     inv |-> [id \in ItemIds |-> IF \E part \in Parts : sc.eq[part] = id THEN 1 ELSE 0],
     alive |-> TRUE, day |-> Character(sc.db).day]

InitPair ==
    /\ call = [fn |-> "none"]
    /\ IdleSession
    /\ user_states = [qq \in Players |-> NewUser(PairScenarios[qq])]

\* handle_adventure for the event of a sender
HandleAdventureOf(sender) ==
    /\ \E qq \in {UserId(sender)} :
          /\ user_states[qq].turn = "none"
          /\ \E combat \in StartCombat(user_states[qq].info, user_states[qq].eq) :
                user_states' =
                    [user_states EXCEPT ![qq] =
                        [@ EXCEPT !.monster = combat.monster, !.hp = combat.hp,
                                  !.acts = combat.acts, !.gun = combat.gun,
                                  !.bullet = combat.bullet,
                                  !.max_bullet = combat.bullet,
                                  !.turn = combat.turn, !.in_fight = TRUE]]
    /\ call' = [fn |-> "handle_adventure", qq |-> sender]
    /\ UNCHANGED combatVars

\* handle_fight for the event of a sender whose state says in_fight
HandleFightOf(sender, action) ==
    /\ \E qq \in {UserId(sender)} :
          /\ user_states[qq].in_fight
          /\ \E s \in {user_states[qq]} :
             \E w \in ExecuteAction(
                         [hp |-> s.hp, eq |-> s.eq, inv |-> s.inv, acts |-> s.acts,
                          gun |-> s.gun, bullet |-> s.bullet, turn |-> s.turn,
                          alive |-> s.alive, day |-> s.day, info |-> s.info,
                          monster |-> s.monster, ret |-> "", tr |-> EmptyTrace],
                         action) :
                /\ w.hp.mon <= HpCap
                /\ user_states' =
                      [user_states EXCEPT ![qq] =
                          [@ EXCEPT !.hp = w.hp, !.eq = w.eq, !.inv = w.inv,
                                    !.acts = w.acts, !.gun = w.gun,
                                    !.bullet = w.bullet, !.turn = w.turn,
                                    !.alive = w.alive, !.day = w.day,
                                    !.in_fight = IF w.ret \in {"empty", "error"} THEN @
                                                 ELSE ~FightIsOver(w.hp)]]
    /\ call' = [fn |-> "handle_fight", qq |-> sender]
    /\ UNCHANGED combatVars

\* handle_fight for the event of a sender who is in no fight: the early return
DroppedCommandOf(sender) ==
    /\ ~user_states[UserId(sender)].in_fight
    /\ call' = [fn |-> "handle_fight", qq |-> sender]
    /\ UNCHANGED <<combatVars, user_states>>

PairAdventure == \E sender \in Players : HandleAdventureOf(sender)
PairFight == \E sender \in Players, action \in Commands : HandleFightOf(sender, action)
PairDropped == \E sender \in Players : DroppedCommandOf(sender)

NextPair ==
    \/ PairAdventure
    \/ PairFight
    \/ PairDropped

SpecPair == InitPair /\ [][NextPair]_vars

-----------------------------------------------------------------------------
(* Properties of a combat session *)

\* the commands the acting side's available_actions list holds
Available == Range(available_actions[current_turn])

\* C1: a command of the acting side's available actions never leaves a running
\* fight as it was: hit points change, or the turn owner flips, or the fight
\* ends, so that no command can be repeated forever without progress
C1_AvailableCommandProgresses ==
    [][(in_fight /\ current_action' \in Available)
          => (hp_record' # hp_record \/ current_turn' # current_turn \/ ~in_fight')]_vars

\* C2: no executed action raises the hit points of either side
C2_HpNonIncreasing ==
    [][in_fight => (hp_record'.inv <= hp_record.inv /\ hp_record'.mon <= hp_record.mon)]_vars

\* C7: a ranged attack asking for more shots than there is ammunition returns
\* the ammunition message, rolls no check and leaves ammunition, hit points,
\* equipment and turn owner unchanged
C7_InsufficientAmmoNoChange ==
    [][(in_fight /\ current_turn = "inv" /\ bullet # Unset
          /\ current_action' \in DOMAIN ShotCount
          /\ bullet < ShotCount[current_action'])
          => (ret' = "noammo" /\ trace'.rolled = 0 /\ trace'.shots = << >>
              /\ bullet' = bullet /\ hp_record' = hp_record
              /\ equipped_items' = equipped_items /\ gun' = gun
              /\ current_turn' = current_turn)]_vars

\* a triple shot was refused with two rounds in the gun
C7_Witness ==
    /\ in_fight /\ ret = "noammo" /\ current_action = "shot3"
    /\ bullet = 2 /\ trace.rolled = 0

RECURSIVE DamageOfHits(_)
\* the summed damage of the logged shots whose level was above Failure
DamageOfHits(shots) ==
    IF shots = << >> THEN 0
    ELSE (IF Head(shots).level > FAILURE THEN Head(shots).damage ELSE 0)
             + DamageOfHits(Tail(shots))

C9_InvalidActionNoChange ==
    [][(in_fight /\ current_action' \notin Available)
          => (hp_record' = hp_record /\ bullet' = bullet
              /\ equipped_items' = equipped_items
              /\ current_turn' = current_turn)]_vars

\* the command current_action' needs a weapon slot that is empty
NeedsEmptySlot ==
    \/ current_turn = "inv" /\ current_action' = "melee" /\ equipped_items["near"] = ""
    \/ current_turn = "inv" /\ current_action' \in DOMAIN ShotCount
           /\ equipped_items["far"] = ""
    \/ current_turn = "mon" /\ current_action' = "counter" /\ equipped_items["near"] = ""

\* C10: an action whose weapon slot is empty rolls no check and leaves
\* ammunition, hit points and turn owner unchanged
C10_MissingEquipmentNoMutation ==
    [][(in_fight /\ NeedsEmptySlot)
          => (bullet' = bullet /\ hp_record' = hp_record
              /\ current_turn' = current_turn /\ trace'.rolled = 0)]_vars

\* C11: a reload on the player's turn with a ranged weapon equipped refills the
\* ammunition to max_bullet, changes no hit points and hands the turn to the monster
C11_ReloadRefillsAndEndsTurn ==
    [][(in_fight /\ current_turn = "inv" /\ equipped_items["far"] # ""
          /\ current_action' = "reload")
          => (bullet' = max_bullet /\ hp_record' = hp_record
              /\ current_turn' = "mon")]_vars

\* C12: a resolved action ends in exactly one of three ways, decided in this
\* order: player hit points <= 0 is Defeat (the character is flagged deceased,
\* no victory handling); else monster hit points <= 0 is Victory (victory
\* handling advances the day, the character stays alive); else the turn owner flips
C12_TurnEndOrder ==
    [][(in_fight /\ ret' = "resolved")
          => IF hp_record'.inv <= 0
             THEN ~issurvive' /\ ~in_fight' /\ day' = day
                  /\ current_turn' = current_turn
             ELSE IF hp_record'.mon <= 0
             THEN issurvive' /\ ~in_fight' /\ day' = day + 1
                  /\ current_turn' = current_turn
             ELSE issurvive' /\ in_fight' /\ day' = day
                  /\ current_turn' # current_turn]_vars

\* a fight that ended in Defeat: the character is flagged deceased and the day
\* counter was not advanced
C12_Witness ==
    /\ ret = "resolved" /\ ~in_fight /\ hp_record.inv <= 0 /\ hp_record.mon > 0
    /\ ~issurvive /\ day = player_info.day

\* C13: in a dodge or a counter where the monster's level and the player's
\* level are both Failure or below, the monster's attack takes no hit points
\* from the player (damage the player inflicts on himself aside) and the
\* monster loses none
C13_BothFailNoDamage ==
    [][(in_fight /\ current_turn = "mon" /\ ret' = "resolved"
          /\ current_action' \in {"dodge", "counter"}
          /\ trace'.levels[1] <= FAILURE /\ trace'.levels[2] <= FAILURE)
          => (trace'.to_inv - trace'.self = 0
              /\ hp_record'.inv = hp_record.inv - trace'.self
              /\ trace'.to_mon = 0 /\ hp_record'.mon = hp_record.mon)]_vars

\* the command current_action' is a melee attack or a counter with a weapon
\* in the melee slot, and the player's check was a critical failure
MeleeCriticalFailure ==
    /\ in_fight /\ ret' = "resolved" /\ equipped_items["near"] # ""
    /\ \/ current_turn = "inv" /\ current_action' = "melee"
             /\ trace'.levels[1] = CRITICAL_FAILURE
       \/ current_turn = "mon" /\ current_action' = "counter"
             /\ trace'.levels[2] = CRITICAL_FAILURE

\* C14: on a critical failure with the pocket knife the wielder loses 1..4 hit
\* points to himself and keeps the knife equipped and the melee action
\* available; with any other item the item leaves its slot and the wielder
\* does no damage to himself
C14_PocketKnifeCriticalFailure ==
    [][MeleeCriticalFailure
          => IF goods_data[equipped_items["near"]].name = "pocket_knife"
             THEN /\ trace'.self \in 1..4
                  /\ equipped_items'["near"] = equipped_items["near"]
                  /\ "melee" \in Range(available_actions'.inv)
             ELSE /\ trace'.self = 0
                  /\ equipped_items'["near"] = ""]_vars

\* C15: a session that ended in Victory has advanced the day counter by exactly
\* 1, whatever the level of the search check, and a session that ended in
\* Defeat, like one still running, has left the day counter as it was.
C15_DayCounter ==
    current_turn # "none"
        => IF ~in_fight /\ hp_record.inv > 0
           THEN day = player_info.day + 1
           ELSE day = player_info.day

\* a Victory whose search check failed, the day advanced all the same
C15_Witness ==
    /\ current_turn # "none" /\ ~in_fight
    /\ hp_record.inv > 0 /\ hp_record.mon <= 0
    /\ Len(trace.search) = 1 /\ trace.search[1] <= FAILURE
    /\ day = player_info.day + 1

\* C16: a Victory won by a melee check that scored above Failure is followed
\* by a growth check of the melee skill, rolled in the same call besides the
\* two checks of the contest and the search check, and the melee rating grows
\* by 0 (check at Success or above) or by 1..10
C16_GrowthCheckAfterVictory ==
    [][(/\ in_fight /\ current_turn = "inv" /\ current_action' = "melee"
        /\ ~in_fight' /\ hp_record'.inv > 0
        /\ Len(trace'.levels) = 2 /\ trace'.levels[1] > FAILURE)
          => (/\ trace'.rolled >= 4
              /\ player_info'.melee - player_info.melee \in 0..10)]_vars

\* C17: the call that ends in Victory rolls one search check; when its level
\* is above Failure the player's gold grows by an amount in 1..max_gold of the
\* monster and at most one item, one of the monster's drop table, is added to
\* the inventory; when it is not, no gold and no item is added
C17_VictoryLoot ==
    [][(in_fight /\ ~in_fight' /\ hp_record'.inv > 0)
          => /\ Len(trace'.search) = 1
             /\ IF trace'.search[1] > FAILURE
                THEN /\ gold' - gold \in 1..monster_data[monster].max_gold
                     /\ \A id \in ItemIds :
                           inventory'[id] > inventory[id]
                              => /\ id \in Range(monster_data[monster].items)
                                 /\ inventory'[id] = inventory[id] + 1
                ELSE /\ gold' = gold
                     /\ \A id \in ItemIds : inventory'[id] <= inventory[id]]_vars

\* C18: under every interleaving of the commands of two users, the session of
\* a user (hit points, ammunition, turn owner, in_fight and survival among its
\* fields) changes only in a step that handles a command of that user
C18_SessionsIndependent ==
    [][\A qq \in Players :
          user_states'[qq] # user_states[qq]
             => ("qq" \in DOMAIN call' /\ call'.qq = qq)]_vars

\* both users in their fights, the first has fired and the second has been
\* hurt, and the command handled last was of the second
C18_Witness ==
    /\ "qq" \in DOMAIN call /\ call.fn = "handle_fight" /\ call.qq = "p2"
    /\ user_states["p1"].in_fight /\ user_states["p2"].in_fight
    /\ user_states["p1"].bullet # Unset
    /\ user_states["p1"].bullet < user_states["p1"].max_bullet
    /\ user_states["p2"].hp.inv < user_states["p2"].info.hp

\* C19: roll_dice raises, and returns no total, for every expression with a
\* term that is neither an integer nor a dice term of count >= 1 and
\* sides >= 1, in normal and in maximum mode
C19_InvalidExpressionFails ==
    (call.fn = "roll_dice" /\ call.done /\ ~ValidTerms(call.terms)) => ~call.ok

\* C20: a ranged attack of n shots (shot 1, shot2 2, shot3 3) on the player's
\* turn, with a ranged weapon equipped and at least n rounds of ammunition,
\* takes exactly n rounds, rolls its checks (one for n = 1, between 1 and n
\* for n > 1) and ends the turn: the monster is to act or the fight is over
C20_RangedAttackConsumesAndEndsTurn ==
    [][(/\ in_fight /\ current_turn = "inv"
        /\ equipped_items["far"] # "" /\ bullet # Unset
        /\ current_action' \in DOMAIN ShotCount
        /\ bullet >= ShotCount[current_action'])
          => (/\ bullet' = bullet - ShotCount[current_action']
              /\ trace'.rolled - Len(trace'.search) \in 1..ShotCount[current_action']
              /\ (current_turn' = "mon" \/ ~in_fight'))]_vars

\* C21: in a dodge on the monster's turn the monster prevails iff its level is
\* strictly above the player's: only then does the player lose hit points (the
\* monster's damage, positive when the player wears no armor), on equal or
\* lower levels the player loses none, and the monster's hit points never change
C21_DodgeStrictlyGreater ==
    [][(in_fight /\ current_turn = "mon" /\ current_action' = "dodge"
          /\ ret' = "resolved")
          => /\ hp_record'.mon = hp_record.mon /\ trace'.to_mon = 0
             /\ hp_record'.inv = hp_record.inv - trace'.to_inv
             /\ trace'.levels[1] <= trace'.levels[2] => trace'.to_inv = 0
             /\ (trace'.levels[1] > trace'.levels[2] /\ GetArmor(equipped_items) = 0)
                   => trace'.to_inv > 0]_vars

\* a dodge with both levels equal and above Failure: the player is not hurt
C21_Witness ==
    /\ in_fight /\ ret = "resolved" /\ current_action = "dodge"
    /\ Len(trace.levels) = 2 /\ trace.levels[1] = trace.levels[2]
    /\ trace.levels[1] > FAILURE /\ trace.to_inv = 0 /\ current_turn = "inv"

\* the player's side of a resolved melee contest: level above Failure and at
\* least the monster's
MeleeWon(levels) == levels[1] > FAILURE /\ levels[1] >= levels[2]

\* C22: a resolved melee action of the player has exactly one of three
\* outcomes.  Won (player's level above Failure and at least the monster's):
\* the weapon damage goes to the monster and the player takes no counter
\* damage.  Lost with a level above Failure on either side: the monster's
\* counter damage goes to the player (positive without armor) and the monster
\* keeps its hit points.  Both levels at Failure or below: no damage of the
\* contest on either side.
C22_MeleeOutcomes ==
    [][(in_fight /\ current_turn = "inv" /\ current_action' = "melee"
          /\ ret' = "resolved")
          => LET levels == trace'.levels
                 counter_damage == trace'.to_inv - trace'.self
             IN /\ MeleeWon(levels)
                     => /\ counter_damage = 0 /\ hp_record'.inv = hp_record.inv
                        /\ (player_info.db = <<"0">> => trace'.to_mon > 0)
                /\ ~MeleeWon(levels)
                     => /\ trace'.to_mon = 0 /\ hp_record'.mon = hp_record.mon
                        /\ hp_record'.inv = hp_record.inv - trace'.to_inv
                /\ (~MeleeWon(levels) /\ (levels[1] > FAILURE \/ levels[2] > FAILURE))
                     => /\ counter_damage >= 0
                        /\ (GetArmor(equipped_items) = 0 => counter_damage > 0)
                /\ (levels[1] <= FAILURE /\ levels[2] <= FAILURE)
                     => counter_damage = 0]_vars

\* a melee attack lost with a Success against a better level of the monster:
\* the player took the counter damage, the monster none
C22_Witness ==
    /\ ret = "resolved" /\ current_action = "melee" /\ Len(trace.levels) = 2
    /\ trace.levels[1] > FAILURE /\ trace.levels[2] > trace.levels[1]
    /\ trace.to_inv > 0 /\ trace.to_mon = 0

PlayerCommands == {"melee", "shot", "shot2", "shot3", "reload"}

DefensiveCommands == {"dodge", "counter"}

\* C23: the first-strike contest gives the turn to one of the two sides; an
\* action resolves only for the side that owns the turn (melee, shots and
\* reload for the player, dodge and counter for the monster's turn); a resolved
\* action hands the turn to the other side unless it ends the fight, and no
\* other command changes the turn owner, so that consecutive resolved actions
\* are of different sides; a command of the wrong side rolls no check
C23_TurnOrder ==
    [][/\ (~in_fight /\ in_fight') => current_turn' \in {"inv", "mon"}
       /\ in_fight
            => /\ ret' = "resolved"
                    => /\ current_turn = "inv" => current_action' \in PlayerCommands
                       /\ current_turn = "mon" => current_action' \in DefensiveCommands
                       /\ in_fight' => current_turn' # current_turn
                       /\ current_turn' \in {"inv", "mon"}
               /\ ret' # "resolved" => current_turn' = current_turn
               /\ (\/ current_turn = "inv" /\ current_action' \in DefensiveCommands
                   \/ current_turn = "mon" /\ current_action' \in PlayerCommands)
                    => /\ ret' # "resolved" /\ trace'.rolled = 0
                       /\ hp_record' = hp_record]_vars

\* the club's owner and the monster have both been hurt in earlier turns, and
\* the last melee attack, missed by both, handed the turn to the monster
C23_Witness ==
    /\ in_fight /\ ret = "resolved" /\ current_action = "melee"
    /\ current_turn = "mon" /\ equipped_items["near"] = "102"
    /\ trace.to_mon = 0 /\ trace.to_inv = 0
    /\ hp_record.inv < player_info.hp
    /\ hp_record.mon < monster_data[monster].hp

\* a session that has reached Victory or Defeat
Terminal == current_turn # "none" /\ (hp_record.inv <= 0 \/ hp_record.mon <= 0)

\* C24: once a session has reached Victory or Defeat, a further action command
\* changes no hit points, rolls no check and runs neither the victory nor the
\* defeat handling again: day counter, inventory, survival flag, equipment and
\* ammunition stay as they are and the session stays closed
C24_TerminalAbsorbing ==
    [][Terminal
          => /\ hp_record' = hp_record /\ trace'.rolled = 0
             /\ day' = day /\ inventory' = inventory /\ issurvive' = issurvive
             /\ equipped_items' = equipped_items /\ bullet' = bullet
             /\ current_turn' = current_turn /\ ~in_fight']_vars

\* a command sent after a Victory was dropped: the day advanced once
C24_Witness ==
    /\ Terminal /\ ret = "dropped" /\ ~in_fight
    /\ hp_record.mon <= 0 /\ hp_record.inv > 0
    /\ day = player_info.day + 1 /\ trace.rolled = 0

\* C25: a penalty check keeps the worse (higher) composed roll: for every base
\* roll in 1..100 and every sequence of penalty digits in 0..9 the final roll
\* is the base roll with its tens digit replaced by the largest digit drawn when
\* that digit exceeds the base roll's tens, and the base roll otherwise; so it
\* is >= the base roll, lies in 1..100, has the base roll's ones digit, and for
\* the same skill its success level is never better than the base roll's.
C25_PenaltyKeepsWorse ==
    (call.fn = "penalty" /\ call.done) =>
        LET base == call.dice
            final == call.final_result
            digits == Range(call.penalty_rolls)
            top == CHOOSE d \in digits : \A e \in digits : e <= d
        IN /\ final = IF top > base \div 10 THEN top * 10 + (base % 10) ELSE base
           /\ final >= base
           /\ final \in D100
           /\ final % 10 = base % 10
           /\ call.level = CalculateSuccessLevel(call.skill, final)
           /\ \A skill \in 1..MaxSkill :
                 CalculateSuccessLevel(skill, final) <= CalculateSuccessLevel(skill, base)

\* a critical-success base roll of 5 turned into a failing 95 by the digits 3, 9
C25_Witness ==
    /\ call.fn = "penalty" /\ call.done
    /\ call.dice = 5 /\ call.penalty_rolls = <<3, 9>> /\ call.skill = 50
    /\ call.final_result = 95 /\ call.level = FAILURE

\* C26: the damage calculator selects its pre-armor total by level and
\* penetration: above HardSuccess with penetration it is the maximum-mode total
\* of the expression plus one normal roll of it, above HardSuccess without
\* penetration the maximum-mode total alone, and for every level up to
\* HardSuccess a single normal roll whatever the penetration flag
C26_DamageByLevel ==
    (call.fn = "damage" /\ call.done /\ call.ok) =>
        \A max_damage \in {RollDice(call.damage, TRUE)},
           random_damage \in {RollDice(call.damage, FALSE)} :
            /\ (call.level > HARD_SUCCESS /\ call.extra) =>
                  call.raw \in {a + b : a \in max_damage.vals, b \in random_damage.vals}
            /\ (call.level > HARD_SUCCESS /\ ~call.extra) =>
                  call.raw \in max_damage.vals
            /\ call.level <= HARD_SUCCESS =>
                  call.raw \in random_damage.vals

\* an ExtremeSuccess with penetration on 1d3: the maximum 3 plus a rolled 1
C26_Witness ==
    /\ call.fn = "damage" /\ call.done /\ call.ok
    /\ call.damage = <<"1", "d", "3">> /\ call.level = EXTREME_SUCCESS /\ call.extra
    /\ call.raw = 4

\* C27: a check is total: for every skill >= 0 (0 included) and every roll in
\* 1..100 the level returned is one of the six success levels
C27_CheckTotal ==
    (call.fn = "check" /\ call.done) => call.level \in Levels

\* C28: in a session whose player started with a ranged weapon the ammunition
\* stays within 0..max_bullet; it decreases only in a ranged attack that also
\* rolls the checks of its shots, and it increases only by a reload
C28_AmmunitionAccounting ==
    [][(in_fight /\ bullet # Unset)
          => /\ 0 <= bullet' /\ bullet' <= max_bullet'
             /\ bullet' < bullet
                   => /\ current_action' \in DOMAIN ShotCount
                      /\ trace'.rolled - Len(trace'.search) >= 1
             /\ bullet' > bullet => current_action' = "reload"]_vars

RECURSIVE PointsFor(_, _)
\* the points the written entries allocate to a key
PointsFor(entries, key) ==
    IF entries = << >> THEN 0
    ELSE (IF Head(entries).key = key THEN Head(entries).points ELSE 0)
            + PointsFor(Tail(entries), key)

RECURSIVE PointsWritten(_)
\* the points the written entries allocate in all
PointsWritten(entries) ==
    IF entries = << >> THEN 0 ELSE Head(entries).points + PointsWritten(Tail(entries))

\* C29: skill allocation is all-or-nothing: set_skill accepts only when the
\* allocated points sum exactly to 教育+智力 of the selected investigator, every
\* named key exists and every resulting value is <= 75; after acceptance each
\* allocated skill is its previous value plus the points allocated to it, and
\* when it does not accept the selected investigator is unchanged
C29_SetSkillAllOrNothing ==
    (call.fn = "set_skill" /\ call.done) =>
        /\ call.flag =>
              /\ PointsWritten(call.entries) = call.skill_point
              /\ \A i \in 1..Len(call.entries) :
                    LET key == call.entries[i].key
                    IN /\ key \in DOMAIN call.before
                       /\ call.select[key] <= SkillCap
                       /\ call.select[key] = call.before[key] + PointsFor(call.entries, key)
              /\ \A key \in DOMAIN call.before :
                    PointsFor(call.entries, key) = 0 => call.select[key] = call.before[key]
        /\ ~call.flag => call.select = call.before

\* C30: a purchase succeeds only when the item is on today's shop list and the
\* user's gold is at least price * num; on success the gold decreases by exactly
\* price * num and the inventory gains num of the item; on failure neither gold
\* nor inventory changes; the gold is never negative
C30_PurchaseAccounting ==
    (call.fn = "buy_item" /\ call.done) =>
        /\ call.ret = "bought" =>
              /\ call.item_id \in DOMAIN SHOP_DATA
              /\ call.gold_before >= SHOP_DATA[call.item_id] * call.num
              /\ call.gold = call.gold_before - SHOP_DATA[call.item_id] * call.num
              /\ call.quantity = call.quantity_before + call.num
        /\ call.ret # "bought" =>
              (call.gold = call.gold_before /\ call.quantity = call.quantity_before)
        /\ call.gold >= 0

=============================================================================
